---- MODULE Spec2Model ----
(***************************************************************************)
(* A model of the evidence_api event log code: EventLogs::replay (the      *)
(* register replay engine) and EventLogs::parse / select (the boot-time    *)
(* and runtime event log parser), src/common/rust/evidence_api/src/        *)
(* eventlog.rs, and of TcgTpmsCelEvent, src/common/rust/evidence_api/src/  *)
(* tcgcel.rs.                                                              *)
(*                                                                         *)
(* Byte strings handled by replay (Vec<u8>) are modelled as sequences of   *)
(* chunks [n, tag, input]: n is the number of bytes of the chunk, tag      *)
(* names its content ("zero": n zero bytes; "d1", "d2": recorded digest    *)
(* bytes; "sha1", "sha256", ...: the output of that hash function over the *)
(* byte string `input`).  Concatenation is \o, the length is the sum of    *)
(* the n.  Hash functions are thus injective on their inputs.              *)
(***************************************************************************)
EXTENDS Integers, Sequences, FiniteSets, TLC

\* ------------------------------------------------------------------ bounds
MaxEvents == 3
MaxDigests == 2
MaxRecords == 2
MaxLines == 1
MaxCalls == 2
MaxCelOps == 2

\* ------------------------------------------------- constants of crate::tcg
TPM_ALG_ERROR == 0
TPM_ALG_SHA1 == 4
TPM_ALG_SHA256 == 11
TPM_ALG_SHA384 == 12
TPM_ALG_SHA512 == 13
\* an algorithm id that replay's match leaves without a hash function
ALG_UNBOUND == 5
EV_NO_ACTION == 3
EV_OTHER == 1
IMA_MEASUREMENT_EVENT == 20
TCG_PCCLIENT_FORMAT == 1
TCG_CANONICAL_FORMAT == 2
\* the number of per-register counters (line 114)
NumRegisters == 24
\* TcgTpmiCelContentType, tcgcel.rs
CEL_MGT == 4
CEL_PCCLIENT_STD == 5
CEL_IMA_TEMPLATE == 7
CEL_IMA_TLV == 8
\* the encoding selectors of TcgTpmsCelEvent::encode
ENCODING_TLV == 2
ENCODING_JSON == 3
ENCODING_CBOR == 4
\* A u32 is held as the 32-bit integer with the same bits: a value v >= 2^31 is
\* held as v - 2^32.  0xFFFFFFFF (line 211), which is u32::MAX, is then -1.
U32Max == -1

VARIABLES
    \* ---- EventLogs::replay
    eventlogs,        \* the entries of the argument the for loop has taken so far
    pending,          \* the digests of the current entry still to be processed
    replay_results,   \* Vec<ReplayResult>
    replay_ret,       \* "run" | "Ok" | "panic"
    \* ---- EventLogs (the fields of the struct)
    spec_id_header_event,
    boot_time_data,   \* Seq of bytes
    run_time_data,    \* Seq of lines, a line is a Seq of characters
    event_logs,
    count,
    parse_format,
    event_logs_record_number_list,
    \* ---- the select / parse call in progress
    pc,               \* "idle" | "binary" | "runtime" | "panic"
    index,            \* parse's cursor into boot_time_data (line 205)
    rt_index,         \* parse's position in run_time_data (line 246)
    sel_start,        \* the arguments of the select call that returned last:
    sel_count,        \*   <<>> for None, <<n>> for Some(n)
    ret,              \* what that call returned: [tag, at, msg, value]
    calls,            \* number of select calls made
    \* ---- history
    blob_src,         \* the records boot_time_data was encoded from
    assigned,         \* <<register, record number>> of the records of this parse
    parsed,           \* a parse has returned Ok(true)
    \* ---- TcgTpmsCelEvent
    cel,              \* the fields of the object, <<>> before new
    cel_pc,           \* "none" | "live" | "panic"
    cel_ops,          \* number of calls made on the object after new
    cel_args,         \* history: the arguments new was called with
    cel_out           \* what the last to_pcclient_format or encode call handed back

replay_vars == <<eventlogs, pending, replay_results, replay_ret>>
parse_vars == <<spec_id_header_event, boot_time_data, run_time_data, event_logs, count,
                parse_format, event_logs_record_number_list, pc, index, rt_index,
                sel_start, sel_count, ret, calls, blob_src, assigned, parsed>>
cel_vars == <<cel, cel_pc, cel_ops, cel_args, cel_out>>
vars == <<replay_vars, parse_vars, cel_vars>>

\* no TcgTpmsCelEvent has been made
NoCel ==
    /\ cel = <<>> /\ cel_pc = "none" /\ cel_ops = 0 /\ cel_args = <<>>
    /\ cel_out = [call |-> "none"]

\* --------------------------------------------------------------- byte strings
Chunk(n, tag, input) == [n |-> n, tag |-> tag, input |-> input]

RECURSIVE ByteLen(_)
ByteLen(b) == IF b = <<>> THEN 0 ELSE Head(b).n + ByteLen(Tail(b))

\* vec![0; n]
Zeros(n) == IF n = 0 THEN <<>> ELSE <<Chunk(n, "zero", <<>>)>>

\* TcgDigest::get_digest_size_from_algorithm_id (crate::tcg, the registry)
get_digest_size_from_algorithm_id(algo_id) ==
    CASE algo_id = TPM_ALG_SHA1 -> 20
      [] algo_id = TPM_ALG_SHA256 -> 32
      [] algo_id = TPM_ALG_SHA384 -> 48
      [] algo_id = TPM_ALG_SHA512 -> 64
      [] OTHER -> 0

\* Sha1 / Sha256 / Sha384 / Sha512 ::new().update(data).finalize().to_vec()
Sha1(data) == <<Chunk(20, "sha1", data)>>
Sha256(data) == <<Chunk(32, "sha256", data)>>
Sha384(data) == <<Chunk(48, "sha384", data)>>
Sha512(data) == <<Chunk(64, "sha512", data)>>

\* ------------------------------------------------------------ event entries
TcgDigest(algo_id, hash) == [algo_id |-> algo_id, hash |-> hash]

\* the variants of EventLogEntry; `digest` is the single 20-byte digest of a
\* TcgPcClientImrEvent, `digests` the digest list of a TcgImrEvent
TcgImrEvent(imr_index, event_type, digests, event_size, event) ==
    [kind |-> "TcgImrEvent", imr_index |-> imr_index, event_type |-> event_type,
     digests |-> digests, digest |-> <<>>, event_size |-> event_size, event |-> event]

TcgPcClientImrEvent(imr_index, event_type, digest, event_size, event) ==
    [kind |-> "TcgPcClientImrEvent", imr_index |-> imr_index, event_type |-> event_type,
     digests |-> <<>>, digest |-> digest, event_size |-> event_size, event |-> event]

TcgCanonicalEvent ==
    [kind |-> "TcgCanonicalEvent", imr_index |-> 0, event_type |-> EV_OTHER,
     digests |-> <<>>, digest |-> <<>>, event_size |-> 0, event |-> <<>>]

ReplayResult(imr_index, digests) == [imr_index |-> imr_index, digests |-> digests]

\* ------------------------------------------------------ EventLogs::replay
\* a lookup that compares the position, not the entry's register
ImrPosByPosition(results, imr_index) ==
    LET hits == {i \in 1..Len(results) : i = imr_index}
    IN IF hits = {} THEN 0 ELSE CHOOSE i \in hits : \A j \in hits : j <= i

\* a lookup that takes the last entry, whatever its register
ImrPosLast(results, imr_index) == Len(results)

\* lines 534-540: the last position whose imr_index matches, 0 for usize::MAX
ImrPos(results, imr_index) ==
    LET hits == {i \in 1..Len(results) : results[i].imr_index = imr_index}
    IN IF hits = {} THEN 0 ELSE CHOOSE i \in hits : \A j \in hits : j <= i

\* lines 549-553: the loop compares the incoming digest's algo_id with algo_id,
\* which was read from that same digest (line 530)
AlgoPos(result_digests, digest, algo_id) ==
    LET hits == {i \in 1..Len(result_digests) : digest.algo_id = algo_id}
    IN IF hits = {} THEN 0 ELSE CHOOSE i \in hits : \A j \in hits : j <= i

\* lines 564-565 (mutant first)
HashInputDataSwapped(running, hash) == hash \o running
HashInputData(running, hash) == running \o hash

\* lines 567-593: the new value of the running entry
\* (mutant first: the last arm hashes as well)
ExtendedByDefault(algo_id, running, hash_input_data) ==
    CASE algo_id = TPM_ALG_SHA256 -> Sha256(hash_input_data)
      [] algo_id = TPM_ALG_SHA384 -> Sha384(hash_input_data)
      [] algo_id = TPM_ALG_SHA512 -> Sha512(hash_input_data)
      [] OTHER -> Sha1(hash_input_data)
Extended(algo_id, running, hash_input_data) ==
    CASE algo_id = TPM_ALG_SHA1 -> Sha1(hash_input_data)
      [] algo_id = TPM_ALG_SHA256 -> Sha256(hash_input_data)
      [] algo_id = TPM_ALG_SHA384 -> Sha384(hash_input_data)
      [] algo_id = TPM_ALG_SHA512 -> Sha512(hash_input_data)
      [] OTHER -> running

\* lines 529-593: the body of the inner for loop, for one digest
ExtendDigest(results, imr_index, digest) ==
    LET algo_id == digest.algo_id
        hash == digest.hash
        digest_size == get_digest_size_from_algorithm_id(algo_id)
        found == ImrPos(results, imr_index)
        r1 == IF found = 0
              THEN Append(results, ReplayResult(imr_index, <<>>))
              ELSE results
        imr_pos == IF found = 0 THEN Len(r1) ELSE found
        algo_found == IF found = 0 THEN 0
                      ELSE AlgoPos(r1[imr_pos].digests, digest, algo_id)
        d1 == IF algo_found = 0
              THEN Append(r1[imr_pos].digests, TcgDigest(algo_id, Zeros(digest_size)))
              ELSE r1[imr_pos].digests
        algo_pos == IF algo_found = 0 THEN Len(d1) ELSE algo_found
        running == d1[algo_pos].hash
        hash_input_data == HashInputData(running, hash)
        d2 == [d1 EXCEPT ![algo_pos].hash = Extended(algo_id, running, hash_input_data)]
    IN [r1 EXCEPT ![imr_pos].digests = d2]

\* line 525 (mutant first: no event type is taken for the no-action marker)
IsNoActionNever(tcg_imr_event) == FALSE
IsNoAction(tcg_imr_event) == tcg_imr_event.event_type = EV_NO_ACTION

\* ------------------------------------------------------- inputs of replay
Registers == {0, 3}
EventTypes == {EV_NO_ACTION, EV_OTHER}
RecordedSize(a) == IF get_digest_size_from_algorithm_id(a) = 0 THEN 20
                   ELSE get_digest_size_from_algorithm_id(a)
Recorded(a, d) == TcgDigest(a, <<Chunk(RecordedSize(a), d, <<>>)>>)
InputDigests == {Recorded(TPM_ALG_SHA1, "d1"), Recorded(TPM_ALG_SHA1, "d2"),
                 Recorded(TPM_ALG_SHA256, "d1"), Recorded(ALG_UNBOUND, "d1")}
\* the digest lists of at most n digests, and the entries that carry them
DigestLists == [n \in 0..MaxDigests |-> UNION {[1..m -> InputDigests] : m \in 0..n}]
ImrEntries ==
    [n \in 0..MaxDigests |->
        {TcgImrEvent(r, t, ds, 0, <<>>) :
            r \in Registers, t \in EventTypes, ds \in DigestLists[n]}]
\* the header entry parse emits for the spec-ID record
InputPcClientEntry == TcgPcClientImrEvent(0, EV_NO_ACTION, Zeros(20), 0, <<>>)

RECURSIVE TotalDigests(_)
TotalDigests(log) ==
    IF log = <<>> THEN 0 ELSE Len(Head(log).digests) + TotalDigests(Tail(log))

\* the number of digests the entries still to come may carry
DigestsLeft == MaxDigests - TotalDigests(eventlogs)

\* `for event_log in eventlogs` (line 522) yields e as the next entry
NextEntry(e) ==
    /\ replay_ret = "run" /\ pending = <<>>
    /\ Len(eventlogs) < MaxEvents
    /\ eventlogs' = Append(eventlogs, e)

\* lines 524-527
ReplayNoAction ==
    \E e \in ImrEntries[DigestsLeft] :
        /\ IsNoAction(e)
        /\ NextEntry(e)
        /\ UNCHANGED <<pending, replay_results, replay_ret, parse_vars, cel_vars>>

\* lines 524-529: a standard record, its digests are then iterated
ReplayStandard ==
    \E e \in ImrEntries[DigestsLeft] :
        /\ ~IsNoAction(e)
        /\ NextEntry(e)
        /\ pending' = e.digests
        /\ UNCHANGED <<replay_results, replay_ret, parse_vars, cel_vars>>

\* lines 529-594, one iteration of `for digest in tcg_imr_event.digests`
ReplayDigest ==
    /\ replay_ret = "run" /\ pending # <<>>
    /\ replay_results' =
         ExtendDigest(replay_results, eventlogs[Len(eventlogs)].imr_index, Head(pending))
    /\ pending' = Tail(pending)
    /\ UNCHANGED <<eventlogs, replay_ret, parse_vars, cel_vars>>

\* line 596
ReplayPcClient ==
    /\ NextEntry(InputPcClientEntry)
    /\ UNCHANGED <<pending, replay_results, replay_ret, parse_vars, cel_vars>>

\* line 597: todo!() panics
ReplayCanonical ==
    /\ NextEntry(TcgCanonicalEvent)
    /\ replay_ret' = "panic"
    /\ UNCHANGED <<pending, replay_results, parse_vars, cel_vars>>

\* line 600: the entries are exhausted
ReplayReturn ==
    /\ replay_ret = "run" /\ pending = <<>>
    /\ replay_ret' = "Ok"
    /\ UNCHANGED <<eventlogs, pending, replay_results, parse_vars, cel_vars>>

\* no EventLogs collection takes part in a replay
NoCollection ==
    /\ blob_src = <<>> /\ boot_time_data = <<>> /\ run_time_data = <<>>
    /\ parse_format = TCG_PCCLIENT_FORMAT
    /\ spec_id_header_event = <<>>
    /\ event_logs = <<>> /\ count = 0
    /\ event_logs_record_number_list = <<>>
    /\ pc = "idle" /\ index = 0 /\ rt_index = 0
    /\ sel_start = <<>> /\ sel_count = <<>>
    /\ ret = <<>> /\ calls = 0 /\ assigned = <<>> /\ parsed = FALSE

ReplayInit ==
    /\ NoCollection
    /\ NoCel
    /\ eventlogs = <<>>
    /\ pending = <<>>
    /\ replay_results = <<>>
    /\ replay_ret = "run"

ReplayNext ==
    \/ ReplayNoAction
    \/ ReplayStandard
    \/ ReplayDigest
    \/ ReplayPcClient
    \/ ReplayCanonical
    \/ ReplayReturn

ReplaySpec == ReplayInit /\ [][ReplayNext]_vars



\* ================================================================ EventLogs
\* ------------------------------------------------------ crate::binary_blob
\* little-endian integers
U16(n) == <<n % 256, (n \div 256) % 256>>
U32(n) == <<n % 256, (n \div 256) % 256, (n \div 65536) % 256, (n \div 16777216) % 256>>
get_u8(b) == b[1]
get_u16(b) == b[1] + 256 * b[2]
get_u32(b) ==
    b[1] + 256 * b[2] + 65536 * b[3] + 16777216 * (IF b[4] < 128 THEN b[4] ELSE b[4] - 256)
\* a < b and a <= b as u32
ULt(a, b) == IF (a < 0) = (b < 0) THEN a < b ELSE b < 0
ULe(a, b) == a = b \/ ULt(a, b)
I32Max == 2147483646 + 1
I32Min == 0 - I32Max - 1
\* a - 1 and a + b as u32, wrapping (a build without overflow checks)
\* (mutant first: the on-disk register index is kept as it is)
WrappingDecNone(a) == a
WrappingDec(a) == IF a = I32Min THEN I32Max ELSE a - 1
WrappingAdd(a, b) ==
    IF a >= 0 /\ b >= 0 /\ a > I32Max - b THEN I32Min + (a - (I32Max - b) - 1)
    ELSE IF a < 0 /\ b < 0 /\ a < I32Min - b THEN (a - I32Min) + (b - I32Min)
    ELSE a + b
\* a + b exceeds u32::MAX
AddOverflows(a, b) ==
    \/ a < 0 /\ b < 0
    \/ a < 0 /\ b >= 0 /\ a + b >= 0
    \/ a >= 0 /\ b < 0 /\ a + b >= 0
\* data[at..at + n] with n a u32: Rust panics unless the range lies in data
Fits(data, at, n) == n >= 0 /\ at <= Len(data) /\ n <= Len(data) - at
Slice(data, from, to) == SubSeq(data, from + 1, to)

\* outcomes of the parsers
Panic == [tag |-> "Panic"]
Err(msg) == [tag |-> "Err", msg |-> msg]

\* TcgEfiSpecIdEvent::new() (crate::tcg)
EmptySpecIdEvent ==
    [signature |-> <<>>, platform_class |-> 0, spec_version_minor |-> 0,
     spec_version_major |-> 0, spec_errata |-> 0, uintn_ize |-> 0,
     number_of_algorithms |-> 0, digest_sizes |-> <<>>,
     vendor_info_size |-> 0, vendor_info |-> <<>>]

\* TcgEventLog (lines 35-43); extra_info holds at most template_name
TcgEventLog(rec_num, imr_index, event_type, digests, event_size, event, extra_info) ==
    [rec_num |-> rec_num, imr_index |-> imr_index, event_type |-> event_type,
     digests |-> digests, event_size |-> event_size, event |-> event,
     extra_info |-> extra_info]

\* lines 54-72; digests[0].hash[0..20] panics on an empty list or a short hash
to_tcg_pcclient_format(ev) ==
    IF ev.event_type = EV_NO_ACTION /\ ev.rec_num = 0 /\ ev.imr_index = 0
    THEN IF Len(ev.digests) = 0 \/ Len(ev.digests[1].hash) < 20
         THEN Panic
         ELSE [tag |-> "Ok",
               entry |-> TcgPcClientImrEvent(ev.imr_index, ev.event_type,
                             Slice(ev.digests[1].hash, 0, 20), ev.event_size, ev.event)]
    ELSE [tag |-> "Ok",
          entry |-> TcgImrEvent(ev.imr_index, ev.event_type, ev.digests,
                                ev.event_size, ev.event)]

\* lines 46-52, 74-76: every format but PC client is todo!()
format_event_log(ev, format) ==
    IF format = TCG_PCCLIENT_FORMAT THEN to_tcg_pcclient_format(ev) ELSE Panic

\* lines 189-193: the counters after the call; the index panics when out of range
\* (mutant first: one counter shared by all the registers)
BumpedAll(counters, imr_index) == [r \in DOMAIN counters |-> counters[r] + 1]
CounterInRange(imr_index) == ULt(imr_index, NumRegisters)
Bumped(counters, imr_index) == [counters EXCEPT ![imr_index] = @ + 1]

\* lines 338-347: the (algorithm id, digest size) pairs of the header
RECURSIVE ReadAlgorithmSizes(_, _, _, _)
ReadAlgorithmSizes(data, at, left, acc) ==
    IF left = 0 THEN [tag |-> "Ok", index |-> at, sizes |-> acc]
    ELSE IF ~Fits(data, at, 4) THEN Panic
    ELSE ReadAlgorithmSizes(data, at + 4, left - 1,
            Append(acc, [algo_id |-> get_u16(Slice(data, at, at + 2)),
                         digest_size |-> get_u16(Slice(data, at + 2, at + 4))]))

\* lines 283-373.  Ok: the record, the consumed length, the counters and the
\* spec-ID header the call leaves behind.
parse_spec_id_event_log(data, counters) ==
    IF ~Fits(data, 0, 8) THEN Panic
    ELSE
    LET imr_index == get_u32(Slice(data, 0, 4))
        header_imr == WrappingDec(imr_index)
        header_event_type == get_u32(Slice(data, 4, 8))
    IN
    \* imr_index = 0: `imr_index - 1` panics or wraps, and then line 190 panics
    IF ~CounterInRange(header_imr) THEN Panic
    ELSE IF ~Fits(data, 8, 24) THEN Panic
    ELSE
    LET rec_num == counters[header_imr]
        digest_hash == Slice(data, 8, 28)
        header_event_size == get_u32(Slice(data, 28, 32))
    IN
    IF ~Fits(data, 32, header_event_size) THEN Panic
    ELSE IF ~Fits(data, 32, 28) THEN Panic
    ELSE
    LET header_event == Slice(data, 32, 32 + header_event_size)
        spec_id_num_of_algo == get_u32(Slice(data, 56, 60))
        algs == ReadAlgorithmSizes(data, 60, spec_id_num_of_algo, <<>>)
    IN
    IF algs.tag = "Panic" THEN Panic
    ELSE IF ~Fits(data, algs.index, 1) THEN Panic
    ELSE
    LET spec_id_vendor_size == get_u8(Slice(data, algs.index, algs.index + 1))
        vendor_at == algs.index + 1
        end == vendor_at + spec_id_vendor_size
    IN
    IF ~Fits(data, vendor_at, spec_id_vendor_size) THEN Panic
    ELSE [tag |-> "Ok",
          event |-> TcgEventLog(rec_num, header_imr, header_event_type,
                        <<TcgDigest(TPM_ALG_ERROR, digest_hash)>>,
                        header_event_size, header_event, <<>>),
          len |-> end,
          counters |-> Bumped(counters, header_imr),
          header |-> [signature |-> Slice(data, 32, 48),
                      platform_class |-> get_u32(Slice(data, 48, 52)),
                      spec_version_minor |-> get_u8(Slice(data, 52, 53)),
                      spec_version_major |-> get_u8(Slice(data, 53, 54)),
                      spec_errata |-> get_u8(Slice(data, 54, 55)),
                      uintn_ize |-> get_u8(Slice(data, 55, 56)),
                      number_of_algorithms |-> spec_id_num_of_algo,
                      digest_sizes |-> algs.sizes,
                      vendor_info_size |-> spec_id_vendor_size,
                      vendor_info |-> Slice(data, vendor_at, end)]]

\* lines 409-416: the position of alg_id in the header's table, Len + 1 if absent
\* (mutant first: a lookup that settles for the first declared algorithm)
AlgPosFirst(digest_sizes, alg_id) == 1
AlgPos(digest_sizes, alg_id) ==
    LET hits == {i \in 1..Len(digest_sizes) : digest_sizes[i].algo_id = alg_id}
    IN IF hits = {} THEN Len(digest_sizes) + 1
       ELSE CHOOSE i \in hits : \A j \in hits : i <= j

\* lines 406-436: the digests of a standard record
RECURSIVE ReadDigests(_, _, _, _, _)
ReadDigests(data, at, left, digest_sizes, acc) ==
    IF left = 0 THEN [tag |-> "Ok", index |-> at, digests |-> acc]
    ELSE IF ~Fits(data, at, 2) THEN Panic
    ELSE
    LET alg_id == get_u16(Slice(data, at, at + 2))
        pos == AlgPos(digest_sizes, alg_id)
    IN
    IF pos = Len(digest_sizes) + 1 THEN Err("No algorithm with such algo_id")
    ELSE
    LET digest_size == digest_sizes[pos].digest_size
    IN
    IF ~Fits(data, at + 2, digest_size) THEN Panic
    ELSE ReadDigests(data, at + 2 + digest_size, left - 1, digest_sizes,
            Append(acc, TcgDigest(alg_id, Slice(data, at + 2, at + 2 + digest_size))))

\* lines 391-455.  counters is what the call leaves in
\* event_logs_record_number_list, also when it returns Err.
parse_event_log(data, counters, header) ==
    IF ~Fits(data, 0, 8) THEN Panic
    ELSE
    LET imr_index == WrappingDec(get_u32(Slice(data, 0, 4)))
        event_type == get_u32(Slice(data, 4, 8))
    IN
    IF ~CounterInRange(imr_index) THEN Panic
    ELSE IF ~Fits(data, 8, 4) THEN Panic
    ELSE
    LET rec_num == counters[imr_index]
        digest_count == get_u32(Slice(data, 8, 12))
        ds == ReadDigests(data, 12, digest_count, header.digest_sizes, <<>>)
    IN
    IF ds.tag = "Panic" THEN Panic
    ELSE IF ds.tag = "Err"
    THEN [tag |-> "Err", msg |-> ds.msg, counters |-> Bumped(counters, imr_index)]
    ELSE IF ~Fits(data, ds.index, 4) THEN Panic
    ELSE
    LET event_size == get_u32(Slice(data, ds.index, ds.index + 4))
        end == ds.index + 4 + event_size
    IN
    IF ~Fits(data, ds.index + 4, event_size) THEN Panic
    ELSE [tag |-> "Ok",
          event |-> TcgEventLog(rec_num, imr_index, event_type, ds.digests, event_size,
                        Slice(data, ds.index + 4, end), <<>>),
          len |-> end,
          counters |-> Bumped(counters, imr_index)]

\* ------------------------------------------------- runtime (IMA) text lines
\* str::trim_matches(' ')
RECURSIVE TrimStart(_)
TrimStart(str) == IF str # <<>> /\ Head(str) = " " THEN TrimStart(Tail(str)) ELSE str
RECURSIVE TrimEnd(_)
TrimEnd(str) ==
    IF str # <<>> /\ str[Len(str)] = " " THEN TrimEnd(SubSeq(str, 1, Len(str) - 1)) ELSE str
trim_matches(str) == TrimEnd(TrimStart(str))

\* str::split(' ').collect(): every space ends an element, "" gives [""].
\* The cuts are the positions of the spaces and the two ends of the string.
Cuts(str) == {i \in 1..Len(str) : str[i] = " "} \cup {0, Len(str) + 1}
Cut(str, k) == CHOOSE c \in Cuts(str) : Cardinality({d \in Cuts(str) : d < c}) = k - 1
split(str) ==
    [k \in 1..Cardinality(Cuts(str)) - 1 |-> SubSeq(str, Cut(str, k) + 1, Cut(str, k + 1) - 1)]

\* [..].join(" ") (mutant first: the first element alone)
joinFirst(elements) == IF elements = <<>> THEN <<>> ELSE elements[1]
RECURSIVE join(_)
join(elements) ==
    IF elements = <<>> THEN <<>>
    ELSE IF Len(elements) = 1 THEN elements[1]
    ELSE elements[1] \o <<" ">> \o join(Tail(elements))

DecDigits == <<"0", "1", "2", "3", "4", "5", "6", "7", "8", "9">>
HexDigits == <<"0", "1", "2", "3", "4", "5", "6", "7", "8", "9",
               "a", "b", "c", "d", "e", "f">>
HexUpper == <<"0", "1", "2", "3", "4", "5", "6", "7", "8", "9",
              "A", "B", "C", "D", "E", "F">>
\* the value of a digit in an alphabet, -1 when it is not in it
DigitIn(alphabet, c) ==
    LET hits == {i \in 1..Len(alphabet) : alphabet[i] = c}
    IN IF hits = {} THEN -1 ELSE (CHOOSE i \in hits : TRUE) - 1
HexVal(c) == IF DigitIn(HexDigits, c) >= 0 THEN DigitIn(HexDigits, c) ELSE DigitIn(HexUpper, c)

\* str::parse::<u32>(): an optional '+', then decimal digits.  <<>> stands for
\* Err (no digit, a character that is no digit, a value above u32::MAX), <<v>>
\* for Ok(v).
RECURSIVE ParseDigits(_, _)
ParseDigits(str, acc) ==
    IF str = <<>> THEN <<acc>>
    ELSE
    LET d == DigitIn(DecDigits, Head(str))
    IN
    IF d < 0 THEN <<>>
    \* acc * 10 + d would exceed 4294967295
    ELSE IF acc < 0 \/ acc > 429496729 \/ (acc = 429496729 /\ d > 5) THEN <<>>
    ELSE IF acc > 214748364 \/ (acc = 214748364 /\ d > 7)
    THEN ParseDigits(Tail(str), I32Min + ((acc - 214748364) * 10 + d - 8))
    ELSE ParseDigits(Tail(str), acc * 10 + d)
parse_u32(str) ==
    LET digits == IF str # <<>> /\ Head(str) = "+" THEN Tail(str) ELSE str
    IN IF digits = <<>> THEN <<>> ELSE ParseDigits(digits, 0)

\* hex::decode: <<-1>> stands for Err (odd length or a character that is no hex digit)
hex_decode(str) ==
    IF Len(str) % 2 = 1 THEN <<-1>>
    ELSE IF \E i \in 1..Len(str) : HexVal(str[i]) < 0 THEN <<-1>>
    ELSE [i \in 1..Len(str) \div 2 |-> 16 * HexVal(str[2 * i - 1]) + HexVal(str[2 * i])]

\* TcgDigest::get_algorithm_id_from_digest_size (crate::tcg): the reverse lookup
\* of the registry; a size of no algorithm is a hard error (TPM_ALG_ERROR here)
get_algorithm_id_from_digest_size(digest_size) ==
    CASE digest_size = 20 -> TPM_ALG_SHA1
      [] digest_size = 32 -> TPM_ALG_SHA256
      [] digest_size = 48 -> TPM_ALG_SHA384
      [] digest_size = 64 -> TPM_ALG_SHA512
      [] OTHER -> TPM_ALG_ERROR

\* lines 470-506.  Every failure of the function is a panic: unwrap (479),
\* the counter index (190), elements[3..] (482), the hard error of the reverse
\* lookup (487), expect (490), elements[2] (495).
parse_ima_event_log(data, counters) ==
    LET elements == split(trim_matches(data))
        parsed_imr == parse_u32(elements[1])
        imr_index == parsed_imr[1]
    IN
    IF parsed_imr = <<>> THEN Panic
    ELSE IF ~CounterInRange(imr_index) THEN Panic
    ELSE IF Len(elements) < 3 THEN Panic
    ELSE
    LET rec_num == counters[imr_index]
        event == join(SubSeq(elements, 4, Len(elements)))
        digest_size == Len(elements[2]) \div 2
        algo_id == get_algorithm_id_from_digest_size(digest_size)
        hash == hex_decode(elements[2])
    IN
    IF algo_id = TPM_ALG_ERROR THEN Panic
    ELSE IF hash = <<-1>> THEN Panic
    ELSE [tag |-> "Ok",
          event |-> TcgEventLog(rec_num, imr_index, IMA_MEASUREMENT_EVENT,
                        <<TcgDigest(algo_id, hash)>>, Len(event), event,
                        <<elements[3]>>),
          counters |-> Bumped(counters, imr_index)]

\* ------------------------------------------------------------ select / parse
None == <<>>
Some(n) == <<n>>

\* what a select call hands back (or the panic that ends it), and where it arose
Returned(tag, at, msg, value) == [tag |-> tag, at |-> at, msg |-> msg, value |-> value]
NotReturned == Returned("none", "", "", <<>>)

\* line 150 (mutant first: a start equal to the count is refused too)
StartBeyondOrAt(cnt, s) == ULe(cnt, s)
StartBeyond(cnt, s) == ULt(cnt, s)

\* line 163 (mutant first: a count of 0 is let through)
ZeroCountAllowed(c) == FALSE
ZeroCount(c) == c # None /\ c[1] = 0

\* lines 148-176, after parse returned Ok.  checks: the build panics on integer
\* overflow (debug) instead of wrapping (release).
SelectTail(logs, cnt, start, c, checks) ==
    IF start # None /\ StartBeyond(cnt, start[1])
    THEN Returned("Err", "select", "Invalid input start", <<>>)
    ELSE IF start # None /\ start[1] = cnt
    THEN Returned("Ok", "select", "", <<>>)
    ELSE
    LET begin == IF start = None THEN 0 ELSE start[1]
    IN
    IF ZeroCount(c) THEN Returned("Err", "select", "Invalid input count", <<>>)
    ELSE IF c # None /\ AddOverflows(c[1], begin) /\ checks
    THEN Returned("Panic", "select", "", <<>>)
    ELSE
    LET end == IF c = None THEN Len(logs)
               ELSE IF ULt(cnt, WrappingAdd(c[1], begin)) THEN Len(logs)
               ELSE WrappingAdd(c[1], begin)
    IN
    \* self.event_logs[begin..end]
    IF ~(begin <= end /\ end <= Len(logs)) THEN Returned("Panic", "select", "", <<>>)
    ELSE Returned("Ok", "select", "", Slice(logs, begin, end))

\* (mutant first: without boot time data parse goes on to the runtime lines)
SelectNoBootDataGoesOn ==
    /\ pc = "idle" /\ calls < MaxCalls
    /\ boot_time_data = <<>>
    /\ calls' = calls + 1
    /\ pc' = "runtime" /\ rt_index' = 0
    /\ ret' = NotReturned
    /\ sel_start' = None /\ sel_count' = None
    /\ assigned' = <<>>
    /\ UNCHANGED <<replay_vars, cel_vars, spec_id_header_event, boot_time_data, run_time_data, event_logs, count,
                   parse_format, event_logs_record_number_list, index, blob_src, parsed>>

\* select is entered (line 141) and parse finds no boot time data (lines 201-203)
SelectNoBootData ==
    /\ pc = "idle" /\ calls < MaxCalls
    /\ boot_time_data = <<>>
    /\ calls' = calls + 1
    /\ ret' = Returned("Err", "parse", "[parse] no boot time eventlog provided", <<>>)
    /\ sel_start' = None /\ sel_count' = None
    /\ assigned' = <<>>
    /\ UNCHANGED <<replay_vars, cel_vars, spec_id_header_event, boot_time_data, run_time_data, event_logs, count,
                   parse_format, event_logs_record_number_list, pc, index, rt_index,
                   blob_src, parsed>>

\* select is entered (line 141) and parse starts its binary pass (line 205)
SelectBegin ==
    /\ pc = "idle" /\ calls < MaxCalls
    /\ boot_time_data # <<>>
    /\ calls' = calls + 1
    /\ pc' = "binary" /\ index' = 0
    /\ ret' = NotReturned
    /\ sel_start' = None /\ sel_count' = None
    /\ assigned' = <<>>
    /\ UNCHANGED <<replay_vars, cel_vars, spec_id_header_event, boot_time_data, run_time_data, event_logs, count,
                   parse_format, event_logs_record_number_list, rt_index, blob_src, parsed>>

InBinaryLoop == pc = "binary" /\ index < Len(boot_time_data)
HeadInRange == Fits(boot_time_data, index, 8)
HeadImr == get_u32(Slice(boot_time_data, index, index + 4))
HeadEventType == get_u32(Slice(boot_time_data, index + 4, index + 8))
Rest == Slice(boot_time_data, index, Len(boot_time_data))

\* line 215: the record goes to parse_spec_id_event_log
\* (mutant first: the number of records kept so far is not looked at)
IsSpecIdRecordAnywhere == HeadEventType = EV_NO_ACTION
IsSpecIdRecord == HeadEventType = EV_NO_ACTION /\ count = 0

\* lines 218 and 233: index = start + event_len
\* (mutant first: the cursor stays where it is)
AdvanceNone(start, event_len) == start
Advance(start, event_len) == start + event_len

\* lines 221, 236 and 251: self.count += 1
\* (mutant first: the count is left as it is)
CountKept(c) == c
CountUp(c) == c + 1

\* the program panics
Abort ==
    /\ pc' = "panic"
    /\ ret' = Returned("Panic", "parse", "", <<>>)
    /\ UNCHANGED <<replay_vars, cel_vars, spec_id_header_event, boot_time_data, run_time_data, event_logs, count,
                   parse_format, event_logs_record_number_list, index, rt_index,
                   sel_start, sel_count, calls, blob_src, assigned, parsed>>

\* parse, and with it select (lines 143-145), returns the error
Fail(msg, counters) ==
    /\ pc' = "idle"
    /\ ret' = Returned("Err", "parse", msg, <<>>)
    /\ event_logs_record_number_list' = counters
    /\ UNCHANGED <<replay_vars, cel_vars, spec_id_header_event, boot_time_data, run_time_data, event_logs, count,
                   parse_format, index, rt_index, sel_start, sel_count, calls, blob_src,
                   assigned, parsed>>

\* lines 208-210: fewer than 8 bytes are left for the two reads
ParseShortHead ==
    /\ InBinaryLoop /\ ~HeadInRange
    /\ Abort

\* lines 211-213: the end-of-log sentinel
ParseSentinel ==
    /\ InBinaryLoop /\ HeadInRange
    /\ HeadImr = U32Max
    /\ pc' = "runtime" /\ rt_index' = 0
    /\ UNCHANGED <<replay_vars, cel_vars, spec_id_header_event, boot_time_data, run_time_data, event_logs, count,
                   parse_format, event_logs_record_number_list, index, sel_start, sel_count,
                   ret, calls, blob_src, assigned, parsed>>

\* lines 215-229: the record is dispatched to parse_spec_id_event_log
ParseSpecIdRecord ==
    /\ InBinaryLoop /\ HeadInRange
    /\ HeadImr # U32Max
    /\ IsSpecIdRecord
    /\ LET got == parse_spec_id_event_log(Rest, event_logs_record_number_list)
           out == format_event_log(got.event, parse_format)
       IN IF got.tag = "Panic" THEN Abort
          ELSE IF out.tag = "Panic" THEN Abort
          ELSE /\ index' = Advance(index, got.len)
               /\ event_logs' = Append(event_logs, out.entry)
               /\ count' = CountUp(count)
               /\ event_logs_record_number_list' = got.counters
               /\ spec_id_header_event' = got.header
               /\ assigned' = Append(assigned, <<got.event.imr_index, got.event.rec_num>>)
               /\ UNCHANGED <<replay_vars, cel_vars, boot_time_data, run_time_data, parse_format, pc, rt_index,
                              sel_start, sel_count, ret, calls, blob_src, parsed>>

\* lines 230-242: the record is dispatched to parse_event_log
ParseStandardRecord ==
    /\ InBinaryLoop /\ HeadInRange
    /\ HeadImr # U32Max
    /\ ~IsSpecIdRecord
    /\ LET got == parse_event_log(Rest, event_logs_record_number_list, spec_id_header_event)
           out == format_event_log(got.event, parse_format)
       IN IF got.tag = "Panic" THEN Abort
          ELSE IF got.tag = "Err"
          THEN Fail("[parse] error in parse_event_log function", got.counters)
          ELSE IF out.tag = "Panic" THEN Abort
          ELSE /\ index' = Advance(index, got.len)
               /\ event_logs' = Append(event_logs, out.entry)
               /\ count' = CountUp(count)
               /\ event_logs_record_number_list' = got.counters
               /\ assigned' = Append(assigned, <<got.event.imr_index, got.event.rec_num>>)
               /\ UNCHANGED <<replay_vars, cel_vars, spec_id_header_event, boot_time_data, run_time_data,
                              parse_format, pc, rt_index, sel_start, sel_count, ret, calls,
                              blob_src, parsed>>

\* line 206: the cursor has reached the end of the boot time data
ParseBinaryEnd ==
    /\ pc = "binary" /\ index >= Len(boot_time_data)
    /\ pc' = "runtime" /\ rt_index' = 0
    /\ UNCHANGED <<replay_vars, cel_vars, spec_id_header_event, boot_time_data, run_time_data, event_logs, count,
                   parse_format, event_logs_record_number_list, index, sel_start, sel_count,
                   ret, calls, blob_src, assigned, parsed>>

\* lines 245-260: one line of the runtime data
ParseRuntimeLine ==
    /\ pc = "runtime" /\ rt_index < Len(run_time_data)
    /\ LET got == parse_ima_event_log(run_time_data[rt_index + 1],
                                      event_logs_record_number_list)
           out == format_event_log(got.event, parse_format)
       IN IF got.tag = "Panic" THEN Abort
          ELSE IF out.tag = "Panic" THEN Abort
          ELSE /\ rt_index' = rt_index + 1
               /\ event_logs' = Append(event_logs, out.entry)
               /\ count' = CountUp(count)
               /\ event_logs_record_number_list' = got.counters
               /\ assigned' = Append(assigned, <<got.event.imr_index, got.event.rec_num>>)
               /\ UNCHANGED <<replay_vars, cel_vars, spec_id_header_event, boot_time_data, run_time_data,
                              parse_format, pc, index, sel_start, sel_count, ret, calls,
                              blob_src, parsed>>

\* the u32 arguments select is called with
StartArgs == {None, Some(U32Max)} \cup {Some(n) : n \in 0..count + 1}
CountArgs == {None, Some(0), Some(1), Some(2), Some(U32Max)}

\* line 263 and lines 148-176: parse returns Ok(true), select returns
SelectReturn ==
    /\ pc = "runtime" /\ rt_index = Len(run_time_data)
    /\ \E start \in StartArgs, c \in CountArgs, checks \in BOOLEAN :
        LET out == SelectTail(event_logs, count, start, c, checks)
        IN /\ sel_start' = start /\ sel_count' = c
           /\ ret' = out
           /\ pc' = IF out.tag = "Panic" THEN "panic" ELSE "idle"
    /\ parsed' = TRUE
    /\ UNCHANGED <<replay_vars, cel_vars, spec_id_header_event, boot_time_data, run_time_data, event_logs, count,
                   parse_format, event_logs_record_number_list, index, rt_index, calls,
                   blob_src, assigned>>

\* ---------------------------------------------- inputs of EventLogs::new
\* The boot time data is the encoding of a log: an optional spec-ID header
\* record, standard records and a tail.
Rep(n, b) == [i \in 1..n |-> b]
\* the bytes of a recorded digest of n bytes: base + 1, base + 2, ...
Ramp(n, base) == [i \in 1..n |-> base + i]

HeaderSrc(imr, algs, pad, vendor) == [imr |-> imr, algs |-> algs, pad |-> pad, vendor |-> vendor]
RecordSrc(imr, event_type, digests, event) ==
    [imr |-> imr, event_type |-> event_type, digests |-> digests, event |-> event]

RECURSIVE EncodeAlgs(_)
EncodeAlgs(algs) ==
    IF algs = <<>> THEN <<>>
    ELSE U16(Head(algs)[1]) \o U16(Head(algs)[2]) \o EncodeAlgs(Tail(algs))
\* TCG_EfiSpecIDEventStruct
EncodeSpecId(h) ==
    Rep(16, 83) \o U32(0) \o <<0, 2, 0, 2>> \o U32(Len(h.algs)) \o EncodeAlgs(h.algs)
        \o <<h.vendor>> \o Rep(h.vendor, 86)
\* TCG_PCClientPCREvent: the event size covers the structure and h.pad more bytes
EncodeHeader(h) ==
    U32(h.imr) \o U32(EV_NO_ACTION) \o Rep(20, 0)
        \o U32(Len(EncodeSpecId(h)) + h.pad) \o EncodeSpecId(h) \o Rep(h.pad, 0)
RECURSIVE EncodeDigests(_)
EncodeDigests(ds) ==
    IF ds = <<>> THEN <<>>
    ELSE U16(Head(ds).algo_id) \o Head(ds).hash \o EncodeDigests(Tail(ds))
\* TCG_PCR_EVENT2
EncodeRecord(r) ==
    U32(r.imr) \o U32(r.event_type) \o U32(Len(r.digests)) \o EncodeDigests(r.digests)
        \o U32(Len(r.event)) \o r.event
RECURSIVE EncodeRecords(_)
EncodeRecords(rs) ==
    IF rs = <<>> THEN <<>> ELSE EncodeRecord(Head(rs)) \o EncodeRecords(Tail(rs))
EncodeBody(src) ==
    (IF src.header = <<>> THEN <<>> ELSE EncodeHeader(src.header[1]))
        \o EncodeRecords(src.records)
DropLast(b, n) == SubSeq(b, 1, IF Len(b) > n THEN Len(b) - n ELSE 0)
EncodeLog(src) ==
    CASE src.tail = "end" -> EncodeBody(src)
      [] src.tail = "sentinel" -> EncodeBody(src) \o U32(U32Max)
      [] src.tail = "sentinel_more" -> EncodeBody(src) \o U32(U32Max) \o <<9, 9, 9, 9, 9>>
      [] src.tail = "cut1" -> DropLast(EncodeBody(src), 1)
      [] src.tail = "cut6" -> DropLast(EncodeBody(src), 6)

Sha1Digest == TcgDigest(TPM_ALG_SHA1, Ramp(20, 160))
Sha256Digest == TcgDigest(TPM_ALG_SHA256, Ramp(3, 32))
Sha384Digest == TcgDigest(TPM_ALG_SHA384, Ramp(2, 48))
\* headers: SHA-1 with its registry size, SHA-256 declared with 3 bytes
H1 == HeaderSrc(1, <<<<TPM_ALG_SHA1, 20>>>>, 0, 0)
H2 == HeaderSrc(1, <<<<TPM_ALG_SHA1, 20>>, <<TPM_ALG_SHA256, 3>>>>, 0, 1)
H3 == HeaderSrc(1, <<<<TPM_ALG_SHA1, 20>>>>, 2, 0)
H4 == HeaderSrc(2, <<<<TPM_ALG_SHA1, 20>>>>, 0, 0)
Headers == {<<>>, <<H1>>, <<H2>>, <<H3>>, <<H4>>}
\* records
R1 == RecordSrc(1, EV_OTHER, <<Sha1Digest>>, <<7>>)
R2 == RecordSrc(2, EV_OTHER, <<Sha1Digest, Sha256Digest>>, <<8, 9>>)
R3 == RecordSrc(2, EV_OTHER, <<>>, <<7>>)
R4 == RecordSrc(1, EV_NO_ACTION, <<Sha1Digest>>, <<>>)
GoodRecords == {R1, R2, R3, R4}
\* a digest of an algorithm no header declares; register indices 0 and 25
BadRecords == {RecordSrc(1, EV_OTHER, <<Sha384Digest>>, <<7>>),
               RecordSrc(0, EV_OTHER, <<Sha1Digest>>, <<>>),
               RecordSrc(25, EV_OTHER, <<Sha1Digest>>, <<>>)}
Tails == {"end", "sentinel", "sentinel_more", "cut1", "cut6"}

SeqsUpTo(S, n) == UNION {[1..m -> S] : m \in 0..n}
\* at most MaxRecords records, a bad one only as the last
RecordLists ==
    SeqsUpTo(GoodRecords, MaxRecords)
      \cup {Append(g, b) : g \in SeqsUpTo(GoodRecords, MaxRecords - 1), b \in BadRecords}
LogSrc(header, records, tail) == [header |-> header, records |-> records, tail |-> tail]
AnyLogs == {LogSrc(h, rs, t) : h \in Headers, rs \in RecordLists, t \in Tails}
\* well-formed logs for the runs with runtime data
GoodLogs == {LogSrc(h, rs, t) : h \in {<<H1>>, <<H2>>}, rs \in SeqsUpTo({R1, R3}, MaxRecords),
                                t \in {"end", "sentinel_more"}}
FewLogs == {LogSrc(<<H1>>, <<>>, "end"), LogSrc(<<H1>>, <<R1>>, "end"),
            LogSrc(<<>>, <<R3>>, "end")}

\* runtime lines
Hex40(c) == Rep(40, c)
Line(register, hex, fields) ==
    register \o <<" ">> \o hex \o <<" ", "i", "m", "a", "-", "n", "g">> \o fields
\* a well-formed line: `lead` spaces, the register in decimal, a digest of
\* `size` bytes that all are `octet` (two digits `hexdigit` each), the template
\* name, the fields, `trail` spaces
LineSrc(lead, register, value, hexdigit, octet, size, fields, trail) ==
    [lead |-> lead, register |-> register, value |-> value, hexdigit |-> hexdigit,
     octet |-> octet, size |-> size, fields |-> fields, trail |-> trail]
TemplateName == <<"i", "m", "a", "-", "n", "g">>
RECURSIVE SpacedFields(_)
SpacedFields(fields) ==
    IF fields = <<>> THEN <<>> ELSE <<" ">> \o Head(fields) \o SpacedFields(Tail(fields))
LineText(src) ==
    Rep(src.lead, " ") \o src.register \o <<" ">> \o Rep(2 * src.size, src.hexdigit)
        \o <<" ">> \o TemplateName \o SpacedFields(src.fields) \o Rep(src.trail, " ")
GoodLineSrcs ==
    {LineSrc(0, <<"1">>, 1, "a", 170, 20, <<<<"x">>>>, 0),
     LineSrc(1, <<"1", "0">>, 10, "b", 187, 20, <<<<"s", ":", "c">>, <<"/", "e">>>>, 1),
     LineSrc(0, <<"2", "3">>, 23, "C", 204, 32, <<>>, 0)}
GoodLines == {LineText(src) : src \in GoodLineSrcs}
\* no field at all
BlankLines == {<<>>, <<" ", " ">>}
\* a digest of 2 bytes (the length of no algorithm), a digest with a character
\* that is no hex digit, a register that is no number, two fields only
MalformedLines == {Line(<<"1">>, <<"a", "b", "c", "d">>, <<" ", "x">>),
                   Line(<<"1">>, Rep(39, "a") \o <<"z">>, <<" ", "x">>),
                   Line(<<"x">>, Hex40("a"), <<" ", "x">>),
                   <<"1", " ">> \o Hex40("a")}
\* and a register index beyond the counters
BadLines == BlankLines \cup MalformedLines \cup {Line(<<"2", "4">>, Hex40("a"), <<" ", "x">>)}
\* at most MaxLines lines, a bad one only as the last
LineLists ==
    SeqsUpTo(GoodLines, MaxLines)
      \cup {Append(g, b) : g \in SeqsUpTo(GoodLines, MaxLines - 1), b \in BadLines}

\* EventLogs::new (lines 118-128) on the encoded log
New(src, lines, format) ==
    /\ blob_src = src
    /\ boot_time_data = EncodeLog(src)
    /\ run_time_data = lines
    /\ parse_format = format
    /\ spec_id_header_event = EmptySpecIdEvent
    /\ event_logs = <<>>
    /\ count = 0
    /\ event_logs_record_number_list = [r \in 0..NumRegisters - 1 |-> 0]

NoCall ==
    /\ pc = "idle" /\ index = 0 /\ rt_index = 0
    /\ sel_start = None /\ sel_count = None
    /\ ret = NotReturned
    /\ calls = 0
    /\ assigned = <<>>
    /\ parsed = FALSE

NoReplay ==
    /\ eventlogs = <<>> /\ pending = <<>> /\ replay_results = <<>>
    /\ replay_ret = "Ok"

ParseInit ==
    /\ NoReplay
    /\ NoCel
    /\ NoCall
    /\ \/ \E src \in AnyLogs : New(src, <<>>, TCG_PCCLIENT_FORMAT)
       \/ \E src \in GoodLogs \cup {LogSrc(<<>>, <<>>, "end")}, lines \in LineLists :
            New(src, lines, TCG_PCCLIENT_FORMAT)
       \/ \E src \in FewLogs : New(src, <<>>, TCG_CANONICAL_FORMAT)

ParseNext ==
    \/ SelectNoBootData
    \/ SelectBegin
    \/ ParseShortHead
    \/ ParseSentinel
    \/ ParseSpecIdRecord
    \/ ParseStandardRecord
    \/ ParseBinaryEnd
    \/ ParseRuntimeLine
    \/ SelectReturn

ParseSpec == ParseInit /\ [][ParseNext]_vars


\* ===================================================== claims about replay
\* the hash function bound to a supported algorithm id
IsSupported(a) == a \in {TPM_ALG_SHA1, TPM_ALG_SHA256, TPM_ALG_SHA384, TPM_ALG_SHA512}
H(a, data) ==
    CASE a = TPM_ALG_SHA1 -> Sha1(data)
      [] a = TPM_ALG_SHA256 -> Sha256(data)
      [] a = TPM_ALG_SHA384 -> Sha384(data)
      [] a = TPM_ALG_SHA512 -> Sha512(data)

\* the extend chain of the recorded digests `hashes`, from `running`
RECURSIVE ChainFrom(_, _, _)
ChainFrom(a, running, hashes) ==
    IF hashes = <<>> THEN running
    ELSE ChainFrom(a, H(a, running \o Head(hashes)), Tail(hashes))
Chain(a, hashes) == ChainFrom(a, Zeros(get_digest_size_from_algorithm_id(a)), hashes)

\* a standard record, not of no-action kind
IsCounted(e) == e.kind = "TcgImrEvent" /\ e.event_type # EV_NO_ACTION
\* the counted records of register r, in input order
CountedOf(log, r) == SelectSeq(log, LAMBDA e : IsCounted(e) /\ e.imr_index = r)
\* the digests those records carry, in input order
RECURSIVE DigestsOf(_)
DigestsOf(records) ==
    IF records = <<>> THEN <<>> ELSE Head(records).digests \o DigestsOf(Tail(records))
\* the recorded hashes of algorithm a among digests
HashesOf(digests, a) ==
    LET mine == SelectSeq(digests, LAMBDA d : d.algo_id = a)
    IN [i \in 1..Len(mine) |-> mine[i].hash]
\* the results replay holds for register r
ResultsOf(r) == SelectSeq(replay_results, LAMBDA res : res.imr_index = r)

\* C1: when replay returns and the standard records of register r each carry
\* exactly one digest, all of one supported algorithm A, the result for r is
\* the single entry (A, chain), chain = H_A(...H_A(H_A(zero || d1) || d2)...)
\* over r's recorded digests in input order.
SingleAlgorithm(r, a) ==
    LET recs == CountedOf(eventlogs, r)
    IN /\ recs # <<>>
       /\ \A i \in 1..Len(recs) :
            Len(recs[i].digests) = 1 /\ recs[i].digests[1].algo_id = a
C1_ReplayChain ==
    replay_ret = "Ok" =>
        \A r \in Registers : \A a \in {TPM_ALG_SHA1, TPM_ALG_SHA256} :
            SingleAlgorithm(r, a) =>
                ResultsOf(r) =
                    <<ReplayResult(r, <<TcgDigest(a,
                        Chain(a, HashesOf(DigestsOf(CountedOf(eventlogs, r)), a)))>>)>>
\* two records d1, d2 on register 3 were replayed to H(H(zero || d1) || d2)
C1_Witness ==
    /\ replay_ret = "Ok"
    /\ SingleAlgorithm(3, TPM_ALG_SHA1)
    /\ Len(CountedOf(eventlogs, 3)) = 2
    /\ LET d == DigestsOf(CountedOf(eventlogs, 3))
       IN /\ d[1].hash # d[2].hash
          /\ ResultsOf(3)[1].digests[1].hash =
                Sha1(Sha1(Zeros(20) \o d[1].hash) \o d[2].hash)

\* C2: when replay returns, the result of every register carries exactly one
\* entry per algorithm id observed on its standard records, and each entry is
\* the extend chain of that algorithm's recorded digests alone.  Stated for the
\* registers whose digests are all of algorithms with a hash function.
ObservedAlgs(r) ==
    LET d == DigestsOf(CountedOf(eventlogs, r))
    IN {d[i].algo_id : i \in 1..Len(d)}
PerAlgorithmEntries(r) ==
    LET d == DigestsOf(CountedOf(eventlogs, r))
        res == ResultsOf(r)[1].digests
    IN /\ Len(res) = Cardinality(ObservedAlgs(r))
       /\ \A a \in ObservedAlgs(r) :
            \E i \in 1..Len(res) :
                /\ res[i].algo_id = a
                /\ res[i].hash = Chain(a, HashesOf(d, a))
C2_PerAlgorithmChains ==
    replay_ret = "Ok" =>
        \A r \in Registers :
            (ObservedAlgs(r) # {} /\ \A a \in ObservedAlgs(r) : IsSupported(a)) =>
                Len(ResultsOf(r)) = 1 /\ PerAlgorithmEntries(r)

\* C3 as stated: the registers of the results are exactly the registers that
\* have a standard record, each once.
C3_OnePerRegisterWithRecord ==
    replay_ret = "Ok" =>
        \A r \in Registers :
            Len(ResultsOf(r)) = IF CountedOf(eventlogs, r) # <<>> THEN 1 ELSE 0
\* C3 amended: the registers of the results are exactly the registers that
\* have a standard record carrying at least one digest, each once; the result
\* holds nothing else.
C3_OnePerRegisterWithDigest ==
    replay_ret = "Ok" =>
        /\ \A r \in Registers :
            Len(ResultsOf(r)) = IF DigestsOf(CountedOf(eventlogs, r)) # <<>> THEN 1 ELSE 0
        /\ \A i \in 1..Len(replay_results) : replay_results[i].imr_index \in Registers
\* register 3 had two digests replayed and register 0 had no record at all
C3_Witness ==
    /\ replay_ret = "Ok"
    /\ Len(DigestsOf(CountedOf(eventlogs, 3))) = 2
    /\ Len(eventlogs) = MaxEvents
    /\ \A i \in 1..Len(eventlogs) : eventlogs[i].imr_index # 0 \/ ~IsCounted(eventlogs[i])
    /\ Len(replay_results) = 1 /\ replay_results[1].imr_index = 3


\* ========================================================== TcgTpmsCelEvent
\* tcgcel.rs.  Option values: None, Some(v).
CelEvent(rec_num, digests, content_type, imr, nv_index, content, encoding) ==
    [rec_num |-> rec_num, digests |-> digests, content_type |-> content_type,
     imr |-> imr, nv_index |-> nv_index, content |-> content, encoding |-> encoding]

\* TcgTpmiCelContentType::is_valid_content (tcgcel.rs lines 331-338, 347-349)
is_valid_content(content_type) ==
    content_type \in {CEL_MGT, CEL_PCCLIENT_STD, CEL_IMA_TEMPLATE, CEL_IMA_TLV}
\* Option::unwrap_or_default on an i32
unwrap_or_default(opt) == IF opt = None THEN 0 ELSE opt[1]

\* TcgTpmsCelEvent::new (tcgcel.rs lines 20-64)
\* (mutant first: the two indices are kept when both are given)
CelEventNewKeepsBoth(rec_num, digests, content_type, imr, nv_index, content) ==
    CelEvent(rec_num, digests, Some(unwrap_or_default(content_type)), imr, nv_index, content, None)
CelEventNew(rec_num, digests, content_type, imr, nv_index, content) ==
    IF imr # None /\ nv_index # None
    THEN CelEvent(rec_num, digests, content_type, None, None, None, None)
    ELSE IF ~is_valid_content(unwrap_or_default(content_type))
    THEN CelEvent(rec_num, digests, None, None, None, None, None)
    ELSE CelEvent(rec_num, digests, Some(unwrap_or_default(content_type)), imr, nv_index,
                  content, None)

\* encoded_in_tlv (lines 218-258): the fields are written back as they are;
\* without a register index, obj.nv_index.unwrap() panics on None
encoded_in_tlv(obj) ==
    IF obj.imr = None /\ obj.nv_index = None THEN Panic ELSE [tag |-> "Ok", obj |-> obj]
\* encoded_in_json, encoded_in_cbor (lines 260-270)
encoded_in_json(obj) == [tag |-> "Ok", obj |-> obj]
encoded_in_cbor(obj) == [tag |-> "Ok", obj |-> obj]
\* encode (lines 151-171)
encode(obj, encoding) ==
    CASE encoding = ENCODING_TLV -> encoded_in_tlv([obj EXCEPT !.encoding = Some("TLV")])
      [] encoding = ENCODING_JSON -> encoded_in_json([obj EXCEPT !.encoding = Some("JSON")])
      [] encoding = ENCODING_CBOR -> encoded_in_cbor([obj EXCEPT !.encoding = Some("CBOR")])
      [] OTHER -> encoded_in_tlv([obj EXCEPT !.encoding = Some("TLV")])

\* the content of an event: template_data() of a TcgTpmsEventImaTemplate
\* (a string, taken as its bytes), event_type() and event_data() of a
\* TcgTpmsEventPcClientStd
template_data(content) == <<"i", "m", "a">>
event_type(content) == EV_OTHER
event_data(content) == <<7, 8>>

\* to_pcclient_format (lines 110-148); content.unwrap() and imr.unwrap()
\* panic on None
\* (mutant first: every content type with a content is converted)
to_pcclient_format_any(obj) ==
    IF obj.imr = None THEN [tag |-> "Ok", value |-> None]
    ELSE [tag |-> "Ok",
          value |-> Some(TcgImrEvent(obj.imr[1], IMA_MEASUREMENT_EVENT, obj.digests, 0, <<>>))]
to_pcclient_format(obj) ==
    CASE obj.content_type = Some(CEL_IMA_TEMPLATE) ->
           IF obj.content = None THEN Panic
           ELSE IF obj.content[1] = "TcgTpmsEventImaTemplate"
           THEN IF obj.imr = None THEN Panic
                ELSE [tag |-> "Ok",
                      value |-> Some(TcgImrEvent(obj.imr[1], IMA_MEASUREMENT_EVENT, obj.digests,
                                                 Len(template_data(obj.content[1])),
                                                 template_data(obj.content[1])))]
           ELSE [tag |-> "Ok", value |-> None]
      [] obj.content_type = Some(CEL_PCCLIENT_STD) ->
           IF obj.content = None THEN Panic
           ELSE IF obj.content[1] = "TcgTpmsEventPcClientStd"
           THEN IF obj.imr = None THEN Panic
                ELSE [tag |-> "Ok",
                      value |-> Some(TcgImrEvent(obj.imr[1], event_type(obj.content[1]),
                                                 obj.digests, Len(event_data(obj.content[1])),
                                                 event_data(obj.content[1])))]
           ELSE [tag |-> "Ok", value |-> None]
      [] OTHER -> [tag |-> "Ok", value |-> None]

\* a call on the object, its argument, and what it handed back
CelReturned(call, arg, out) == [call |-> call, arg |-> arg, out |-> out]

\* the arguments of new, set_imr, set_nv_index and encode
CelRecNums == {0, 1}
CelDigestLists == {<<>>, <<Sha1Digest>>}
CelContentTypes == {None, Some(0), Some(CEL_MGT), Some(CEL_PCCLIENT_STD), Some(6),
                    Some(CEL_IMA_TEMPLATE), Some(CEL_IMA_TLV)}
CelImrs == {None, Some(0), Some(3)}
CelNvIndices == {None, Some(1)}
CelContents == {None, Some("TcgTpmsEventImaTemplate"), Some("TcgTpmsEventPcClientStd")}
CelEncodings == {ENCODING_TLV, ENCODING_JSON, ENCODING_CBOR, 9}

\* the arguments new was called with last
CelNew ==
    /\ cel_pc = "none"
    /\ \E rec_num \in CelRecNums, digests \in CelDigestLists, content_type \in CelContentTypes,
          imr \in CelImrs, nv_index \in CelNvIndices, content \in CelContents :
         /\ cel' = CelEventNew(rec_num, digests, content_type, imr, nv_index, content)
         /\ cel_args' = CelEvent(rec_num, digests, content_type, imr, nv_index, content, None)
    /\ cel_pc' = "live"
    /\ UNCHANGED <<cel_ops, cel_out, replay_vars, parse_vars>>

\* set_imr (lines 78-80)
CelSetImr ==
    /\ cel_pc = "live" /\ cel_ops < MaxCelOps
    /\ \E imr \in {0, 3} : cel' = [cel EXCEPT !.imr = Some(imr)]
    /\ cel_ops' = cel_ops + 1
    /\ UNCHANGED <<cel_pc, cel_args, cel_out, replay_vars, parse_vars>>

\* set_nv_index (lines 82-84)
CelSetNvIndex ==
    /\ cel_pc = "live" /\ cel_ops < MaxCelOps
    /\ cel' = [cel EXCEPT !.nv_index = Some(1)]
    /\ cel_ops' = cel_ops + 1
    /\ UNCHANGED <<cel_pc, cel_args, cel_out, replay_vars, parse_vars>>

\* encode (lines 151-171) on the object; the object it hands back is kept
CelEncode ==
    /\ cel_pc = "live" /\ cel_ops < MaxCelOps
    /\ \E encoding \in CelEncodings :
        LET out == encode(cel, encoding)
        IN IF out.tag = "Panic"
           THEN cel_pc' = "panic" /\ cel' = cel /\ cel_out' = CelReturned("encode", encoding, out)
           ELSE /\ cel_pc' = "live" /\ cel' = out.obj
                /\ cel_out' = CelReturned("encode", encoding, out)
    /\ cel_ops' = cel_ops + 1
    /\ UNCHANGED <<cel_args, replay_vars, parse_vars>>

\* to_pcclient_format (lines 110-148) on the object, which it leaves as it is
CelToPcClientFormat ==
    /\ cel_pc = "live"
    /\ LET out == to_pcclient_format(cel)
       IN /\ cel_out' = CelReturned("to_pcclient_format", None, out)
          /\ cel_pc' = IF out.tag = "Panic" THEN "panic" ELSE "live"
    /\ UNCHANGED <<cel, cel_ops, cel_args, replay_vars, parse_vars>>

CelInit ==
    /\ NoCollection
    /\ NoReplay
    /\ NoCel

CelNext ==
    \/ CelNew
    \/ CelSetImr
    \/ CelSetNvIndex
    \/ CelEncode
    \/ CelToPcClientFormat

CelSpec == CelInit /\ [][CelNext]_vars

\* ------------------------------------------------- claims about EventLogs
\* What the encoded log says, read off blob_src and not off the parsers.
WellFormedHeader(h) == h.imr = 1 /\ h.pad = 0
Declares(h, d) == \E i \in 1..Len(h.algs) : h.algs[i] = <<d.algo_id, Len(d.hash)>>
DeclaresAlg(h, d) == \E i \in 1..Len(h.algs) : h.algs[i][1] = d.algo_id
WellFormedRecord(h, r) ==
    /\ r.imr \in 1..NumRegisters
    /\ \A i \in 1..Len(r.digests) : Declares(h, r.digests[i])
\* a header on register 0 and records that carry declared digests only
WellFormedBody(src) ==
    /\ src.header # <<>> /\ WellFormedHeader(src.header[1])
    /\ \A k \in 1..Len(src.records) : WellFormedRecord(src.header[1], src.records[k])
ValidLog(src) == WellFormedBody(src) /\ src.tail \in {"end", "sentinel", "sentinel_more"}
TruncatedLog(src) == WellFormedBody(src) /\ src.tail \in {"cut1", "cut6"}
\* the offset of the k-th record after the header
RecordOffset(src, k) ==
    Len(EncodeBody(LogSrc(src.header, SubSeq(src.records, 1, k - 1), "end")))
\* the offset, within its record, of the algorithm id of the j-th digest
AlgIdOffset(r, j) == 12 + Len(EncodeDigests(SubSeq(r.digests, 1, j - 1)))
\* the expected entry of a standard record
ExpectedEntry(r) == TcgImrEvent(r.imr - 1, r.event_type, r.digests, Len(r.event), r.event)

\* C4 as stated: once a parse of a valid log has succeeded, a later parse
\* leaves the collection and its count as they are.
C4_ParseIdempotent ==
    [][(parsed /\ ValidLog(blob_src)) => (event_logs' = event_logs /\ count' = count)]_vars

\* the first parse stands at the k-th record, whose j-th digest is the first
\* one of an algorithm the header does not declare, its algorithm id in the data
AtUndeclaredDigest(k, j) ==
    LET r == blob_src.records[k]
    IN /\ WellFormedHeader(blob_src.header[1])
       /\ pc = "binary" /\ count = k /\ index = RecordOffset(blob_src, k)
       /\ r.imr \in 1..NumRegisters
       /\ ~DeclaresAlg(blob_src.header[1], r.digests[j])
       /\ \A i \in 1..j - 1 : Declares(blob_src.header[1], r.digests[i])
       /\ index + AlgIdOffset(r, j) + 2 <= Len(boot_time_data)
\* C5: a standard record carrying a digest whose algorithm id the header does
\* not declare makes parse, and so select, return an error; the record is not
\* added to the collection and the count stays.
C5_UndeclaredAlgorithmIsError ==
    [][(/\ blob_src.header # <<>>
        /\ \E k \in 1..Len(blob_src.records) :
             \E j \in 1..Len(blob_src.records[k].digests) : AtUndeclaredDigest(k, j))
       => (/\ ret' = Returned("Err", "parse", "[parse] error in parse_event_log function", <<>>)
           /\ pc' = "idle"
           /\ event_logs' = event_logs /\ count' = count)]_vars
\* the second record of a log whose header declares two algorithms carried a
\* third one: the error is returned, the header and the first record are kept
C5_Witness ==
    /\ blob_src.header = <<H2>> /\ Len(blob_src.records) = 2
    /\ blob_src.records[2].digests = <<Sha384Digest>>
    /\ calls = 1 /\ pc = "idle"
    /\ ret.tag = "Err" /\ ret.at = "parse"
    /\ count = 2 /\ Len(event_logs) = 2

\* C6 as stated: a log that ends in the middle of a record makes parse return
\* an error; the call neither aborts nor accepts the shortened record.
C6_TruncatedIsError ==
    (TruncatedLog(blob_src) /\ calls = 1 /\ pc \in {"idle", "panic"}) =>
        (ret.tag = "Err" /\ pc = "idle")

\* the record numbers parse has given to the records of register r, in order
NumbersOf(r) ==
    LET F[i \in 0..Len(assigned)] ==
            IF i = 0 THEN <<>>
            ELSE IF assigned[i][1] = r THEN Append(F[i - 1], assigned[i][2]) ELSE F[i - 1]
    IN F[Len(assigned)]
\* C7: within one parse the record numbers of a register go up by one from
\* record to record, whatever records of other registers lie between them, and
\* in the parse of a new collection they start at 0.
C7_RecordNumbersPerRegister ==
    \A r \in 0..NumRegisters - 1 :
        LET ns == NumbersOf(r)
        IN /\ \A i \in 1..Len(ns) - 1 : ns[i + 1] = ns[i] + 1
           /\ (calls = 1 /\ ns # <<>>) => ns[1] = 0
\* two records of one register with a record of another register between them
C7_Witness ==
    /\ calls = 1
    /\ \E i, j, k \in 1..Len(assigned) :
        /\ i < j /\ j < k
        /\ assigned[i][1] = assigned[k][1] /\ assigned[j][1] # assigned[i][1]
        /\ assigned[i][2] = 0 /\ assigned[j][2] = 0 /\ assigned[k][2] = 1

\* the digests of r are those the header declares, in the header's order
CarriesDeclared(h, r) ==
    /\ Len(r.digests) = Len(h.algs)
    /\ \A i \in 1..Len(h.algs) : h.algs[i] = <<r.digests[i].algo_id, Len(r.digests[i].hash)>>
\* C8: after a header declaring N algorithms, a standard record carrying N
\* digests of these algorithms in that order is parsed to a standard entry
\* with these N digests (ids, lengths and bytes), the register index one below
\* the recorded one, and the recorded event type, event size and event bytes.
C8_StandardRecordRoundTrip ==
    \A k \in 1..Len(blob_src.records) :
        (/\ WellFormedBody(LogSrc(blob_src.header, SubSeq(blob_src.records, 1, k), "end"))
         /\ CarriesDeclared(blob_src.header[1], blob_src.records[k])
         /\ parse_format = TCG_PCCLIENT_FORMAT
         /\ Len(event_logs) >= k + 1)
        => event_logs[k + 1] = ExpectedEntry(blob_src.records[k])
\* the record with a SHA-1 digest of 20 bytes and a SHA-256 digest declared
\* with 3 bytes has been parsed
C8_Witness ==
    /\ blob_src.header = <<H2>> /\ Len(blob_src.records) >= 1 /\ blob_src.records[1] = R2
    /\ Len(event_logs) >= 2
    /\ event_logs[2] = TcgImrEvent(1, EV_OTHER, <<Sha1Digest, Sha256Digest>>, 2, <<8, 9>>)

\* select got past parse and ran its own checks
SelectRan == ret.at = "select"
Begin == IF sel_start = None THEN 0 ELSE sel_start[1]
\* C9: select without bounds returns the whole collection; a start equal to
\* the count returns an empty result; a start above the count is an error; a
\* start below the count, when the call succeeds, returns a run of adjacent
\* entries that begins at start.
C9_SelectWindow ==
    SelectRan =>
        /\ (sel_start = None /\ sel_count = None) => ret = Returned("Ok", "select", "", event_logs)
        /\ (sel_start # None /\ sel_start[1] = count) => ret = Returned("Ok", "select", "", <<>>)
        /\ (sel_start # None /\ ULt(count, sel_start[1])) => ret.tag = "Err"
        /\ (ULt(Begin, count) /\ ret.tag = "Ok") =>
              \E end \in Begin + 1..count : ret.value = Slice(event_logs, Begin, end)
\* a start equal to a count of at least two, with a count argument
C9_Witness ==
    /\ SelectRan /\ count >= 2
    /\ sel_start = Some(count) /\ sel_count # None
    /\ ret.tag = "Ok" /\ ret.value = <<>>

\* C10 as stated: for a start below the count and a count argument of at least
\* one, select returns the entries from start up to start + count, or up to
\* the end of the collection where that lies beyond it.
C10_ClampedWindow ==
    (/\ SelectRan
     /\ sel_start # None /\ ULt(sel_start[1], count)
     /\ sel_count # None /\ sel_count[1] # 0)
    => /\ ret.tag = "Ok"
       /\ ret.value = Slice(event_logs, Begin,
                            IF ULe(count - Begin, sel_count[1]) THEN count
                            ELSE Begin + sel_count[1])

\* C11 as stated: select called with a count of 0 returns an error, whatever
\* start is.
C11_ZeroCountIsError ==
    (SelectRan /\ sel_count = Some(0)) => ret.tag = "Err"
\* C11 amended: select called with a count of 0 returns an error for every
\* start but the one equal to the count of the collection, for which it
\* returns an empty result.
C11_ZeroCountIsErrorButAtEnd ==
    (SelectRan /\ sel_count = Some(0)) =>
        IF sel_start = Some(count) THEN ret = Returned("Ok", "select", "", <<>>)
        ELSE ret.tag = "Err"
\* a count of 0 with a start below the count of the collection was refused
\* for the count
C11_Witness ==
    /\ SelectRan /\ sel_count = Some(0)
    /\ count >= 2 /\ sel_start = Some(1)
    /\ ret = Returned("Err", "select", "Invalid input count", <<>>)

\* the register index field of the first record is the end-of-log sentinel
SentinelFirst ==
    Len(boot_time_data) >= 4 /\ get_u32(Slice(boot_time_data, 0, 4)) = U32Max
\* C12 as stated: a log whose first register index field is 0xFFFFFFFF,
\* whatever its length and whatever follows, is parsed with success and gives
\* no record.
C12_SentinelFirstIsEmptyLog ==
    (SentinelFirst /\ calls = 1 /\ pc \in {"idle", "panic"}) =>
        (parsed /\ SelectRan /\ count = Len(run_time_data))

\* ---------------------------------------------- further claims about replay
HasCanonical == \E i \in 1..Len(eventlogs) : eventlogs[i].kind = "TcgCanonicalEvent"
\* C13 as stated: a replay that meets a canonical-format record ends with a
\* failure result handed to the caller ("Err"); it does not return Ok, and it
\* does not end in any other way.
C13_CanonicalIsFailureResult ==
    (HasCanonical /\ replay_ret # "run") => replay_ret = "Err"

\* the next digest of the inner loop is of an algorithm without a hash function
AtUnboundDigest ==
    replay_ret = "run" /\ pending # <<>> /\ ~IsSupported(Head(pending).algo_id)
\* every entry of the results before the step is the same after it
RunningValuesKept ==
    /\ Len(replay_results') >= Len(replay_results)
    /\ \A i \in 1..Len(replay_results) :
        /\ replay_results'[i].imr_index = replay_results[i].imr_index
        /\ Len(replay_results'[i].digests) >= Len(replay_results[i].digests)
        /\ \A j \in 1..Len(replay_results[i].digests) :
            replay_results'[i].digests[j] = replay_results[i].digests[j]
\* C14: a digest of an algorithm without a bound hash function does not make
\* replay fail and leaves every running value of the results as it was.
C14_UnboundDigestIsNoOp ==
    [][AtUnboundDigest => (replay_ret' = "run" /\ RunningValuesKept)]_vars
\* a record carried a SHA-1 digest and then a digest of an unbound algorithm;
\* replay returned Ok with the SHA-1 value of the first digest alone
C14_Witness ==
    /\ replay_ret = "Ok"
    /\ Len(eventlogs) = 1
    /\ eventlogs[1].event_type = EV_OTHER
    /\ eventlogs[1].digests = <<Recorded(TPM_ALG_SHA1, "d1"), Recorded(ALG_UNBOUND, "d1")>>
    /\ Len(replay_results) = 1
    /\ replay_results[1].digests[1] =
         TcgDigest(TPM_ALG_SHA1, H(TPM_ALG_SHA1, Zeros(20) \o Recorded(TPM_ALG_SHA1, "d1").hash))

\* the value is the output of the hash function bound to algorithm a
IsExtendOutput(a, hash) ==
    /\ IsSupported(a)
    /\ Len(hash) = 1 /\ hash = H(a, hash[1].input)
\* C15 as stated: every digest entry of the returned results is the output of
\* an extend step of its own algorithm; no entry is of an algorithm without a
\* bound hash function.
C15_OnlyEvaluatedAlgorithms ==
    replay_ret = "Ok" =>
        \A i \in 1..Len(replay_results) :
            \A j \in 1..Len(replay_results[i].digests) :
                IsExtendOutput(replay_results[i].digests[j].algo_id,
                               replay_results[i].digests[j].hash)

\* the input without its header entries and its no-action records
IsSkippedKind(e) ==
    \/ e.kind = "TcgPcClientImrEvent"
    \/ e.kind = "TcgImrEvent" /\ e.event_type = EV_NO_ACTION
WithoutSkipped(log) == SelectSeq(log, LAMBDA e : ~IsSkippedKind(e))
\* replay of standard records only: every digest of every record is extended
\* into the results, in input order
RECURSIVE ExtendAll(_, _, _)
ExtendAll(results, imr_index, digests) ==
    IF digests = <<>> THEN results
    ELSE ExtendAll(ExtendDigest(results, imr_index, Head(digests)), imr_index, Tail(digests))
RECURSIVE ReplayStandardOnly(_, _)
ReplayStandardOnly(results, log) ==
    IF log = <<>> THEN results
    ELSE ReplayStandardOnly(ExtendAll(results, Head(log).imr_index, Head(log).digests),
                            Tail(log))
\* C16: header entries and no-action records take no part in replay: the
\* results replay returns are those it returns for the input without them.
C16_SkippedKindsTakeNoPart ==
    replay_ret = "Ok" => replay_results = ReplayStandardOnly(<<>>, WithoutSkipped(eventlogs))
\* replay returned for an input of a header entry, a no-action record that
\* carries a digest and a standard record that carries a digest
C16_Witness ==
    /\ replay_ret = "Ok"
    /\ \E i, j, k \in 1..Len(eventlogs) :
        /\ eventlogs[i].kind = "TcgPcClientImrEvent"
        /\ eventlogs[j].kind = "TcgImrEvent" /\ eventlogs[j].event_type = EV_NO_ACTION
        /\ eventlogs[j].digests # <<>>
        /\ eventlogs[k].kind = "TcgImrEvent" /\ eventlogs[k].event_type = EV_OTHER
        /\ eventlogs[k].digests # <<>>
        /\ eventlogs[j].imr_index = eventlogs[k].imr_index
    /\ Len(replay_results) = 1 /\ Len(replay_results[1].digests) = 1

\* ---------------------------------------- claims about the runtime text lines
\* the algorithm whose digest size in the registry is `size`
AlgorithmOfSize(size) ==
    CHOOSE a \in {TPM_ALG_SHA1, TPM_ALG_SHA256, TPM_ALG_SHA384, TPM_ALG_SHA512} :
        get_digest_size_from_algorithm_id(a) = size
\* the fields with one space between them
RECURSIVE Payload(_)
Payload(fields) ==
    IF fields = <<>> THEN <<>>
    ELSE IF Len(fields) = 1 THEN fields[1]
    ELSE fields[1] \o <<" ">> \o Payload(Tail(fields))
ExpectedDigests(src) == <<TcgDigest(AlgorithmOfSize(src.size), Rep(src.size, src.octet))>>
\* the k-th line of the runtime data is the text of src and the current parse
\* has taken it
LineTaken(k, src) ==
    /\ pc = "runtime" /\ k <= rt_index
    /\ run_time_data[k] = LineText(src)
\* C17: a well-formed line gives a record with the register of its first
\* field, one digest holding the decoded bytes of the second field under the
\* algorithm of that many bytes, the template name as metadata, the integrity
\* measurement event type, and as payload the fields after the template name
\* with single spaces between them; the entry appended to the collection
\* carries the same register, event type, digest and payload.
C17_ImaLineRecord ==
    \A k \in 1..Len(run_time_data) : \A src \in GoodLineSrcs :
        LineTaken(k, src) =>
            LET got == parse_ima_event_log(run_time_data[k], [r \in 0..NumRegisters - 1 |-> 0])
            IN /\ got.tag = "Ok"
               /\ got.event.imr_index = src.value
               /\ got.event.event_type = IMA_MEASUREMENT_EVENT
               /\ got.event.digests = ExpectedDigests(src)
               /\ got.event.extra_info = <<TemplateName>>
               /\ got.event.event = Payload(src.fields)
               /\ got.event.event_size = Len(Payload(src.fields))
               /\ event_logs[Len(event_logs) - rt_index + k] =
                    TcgImrEvent(src.value, IMA_MEASUREMENT_EVENT, ExpectedDigests(src),
                                Len(Payload(src.fields)), Payload(src.fields))
\* the line " 10 bb..bb ima-ng s:c /e " has been taken: register 10, twenty
\* bytes 0xbb under SHA-1, payload "s:c /e"
C17_Witness ==
    /\ pc = "runtime" /\ rt_index = 1
    /\ run_time_data[1] =
         LineText(LineSrc(1, <<"1", "0">>, 10, "b", 187, 20, <<<<"s", ":", "c">>, <<"/", "e">>>>, 1))
    /\ event_logs[Len(event_logs)] =
         TcgImrEvent(10, IMA_MEASUREMENT_EVENT, <<TcgDigest(TPM_ALG_SHA1, Rep(20, 187))>>, 6,
                     <<"s", ":", "c", " ", "/", "e">>)

\* the k-th line of the runtime data is malformed and the lines before it are
\* well-formed
FirstMalformedAt(k) ==
    /\ k \in 1..Len(run_time_data)
    /\ run_time_data[k] \in MalformedLines
    /\ \A i \in 1..k - 1 : run_time_data[i] \in GoodLines
\* C18 as stated: a malformed runtime line makes parse return an error, and
\* no record is appended for that line.
C18_MalformedLineIsError ==
    \A k \in 1..Len(run_time_data) :
        (/\ FirstMalformedAt(k)
         /\ ValidLog(blob_src) /\ blob_src.tail # "sentinel"
         /\ calls = 1 /\ pc \in {"idle", "panic"})
        => (/\ ret.tag = "Err" /\ ret.at = "parse" /\ pc = "idle"
            /\ count = 1 + Len(blob_src.records) + k - 1)

\* C19: on a collection without boot time data a call of select (and so of
\* parse) returns an error, runtime lines or not, and leaves the collection,
\* its count, the counters of the registers and the spec-ID header as they
\* were.
C19_NoBootDataIsError ==
    [][boot_time_data = <<>> =>
        (/\ ret' = Returned("Err", "parse", "[parse] no boot time eventlog provided", <<>>)
         /\ pc' = "idle"
         /\ event_logs' = event_logs /\ count' = count
         /\ event_logs_record_number_list' = event_logs_record_number_list
         /\ spec_id_header_event' = spec_id_header_event)]_vars
\* two calls on a collection that holds a well-formed runtime line and no boot
\* time data: the error, and nothing in the collection
C19_Witness ==
    /\ boot_time_data = <<>>
    /\ run_time_data # <<>> /\ run_time_data[1] \in GoodLines
    /\ calls = 2 /\ pc = "idle"
    /\ ret.tag = "Err" /\ ret.at = "parse"
    /\ event_logs = <<>> /\ count = 0
    /\ \A r \in 0..NumRegisters - 1 : event_logs_record_number_list[r] = 0
    /\ spec_id_header_event = EmptySpecIdEvent

\* ------------------------------------------- claims about TcgTpmsCelEvent
\* C20: new called with both a register index and a non-volatile index does
\* not panic and returns the object with its register index, non-volatile
\* index, content and encoding all unset.
C20_BothIndicesGiveEmptyEvent ==
    (/\ cel_pc # "none" /\ cel_ops = 0 /\ cel_out.call = "none"
     /\ cel_args.imr # None /\ cel_args.nv_index # None) =>
        /\ cel_pc = "live"
        /\ cel.imr = None /\ cel.nv_index = None
        /\ cel.content = None /\ cel.encoding = None
\* new was called with register index 3, non-volatile index 1, a valid
\* content type and a content
C20_Witness ==
    /\ cel_pc = "live" /\ cel_ops = 0 /\ cel_out.call = "none"
    /\ cel_args.imr = Some(3) /\ cel_args.nv_index = Some(1)
    /\ cel_args.content_type = Some(CEL_IMA_TEMPLATE)
    /\ cel_args.content = Some("TcgTpmsEventImaTemplate")
    /\ cel = CelEvent(cel_args.rec_num, cel_args.digests, Some(CEL_IMA_TEMPLATE),
                      None, None, None, None)

\* C21: to_pcclient_format hands back an event only when the content type
\* is IMA-template or PC-Client-standard; on an event whose content type is
\* management, IMA-TLV or unset (the state a failed construction leaves
\* included) it does not panic and hands back no result.
ConvertibleTypes == {Some(CEL_IMA_TEMPLATE), Some(CEL_PCCLIENT_STD)}
C21_OtherContentGivesNoResult ==
    cel_out.call = "to_pcclient_format" =>
        /\ (cel_out.out.tag = "Ok" /\ cel_out.out.value # None) =>
               cel.content_type \in ConvertibleTypes
        /\ cel.content_type \notin ConvertibleTypes =>
               cel_out.out = [tag |-> "Ok", value |-> None]
\* new was refused for its content type 6, a register index was set on the
\* empty object it left, and to_pcclient_format handed back no result
C21_Witness ==
    /\ cel_out = CelReturned("to_pcclient_format", None, [tag |-> "Ok", value |-> None])
    /\ cel_pc = "live"
    /\ cel_args.content_type = Some(6) /\ cel_args.content # None
    /\ cel.content_type = None /\ cel.imr = Some(3)

\* C22: encode with the JSON selector (3) or the CBOR selector (4) gives an
\* outcome of its own, "unsupported": it does not hand the record back as
\* an encoded one.
C22_JsonCborIsUnsupported ==
    (cel_out.call = "encode" /\ cel_out.arg \in {ENCODING_JSON, ENCODING_CBOR}) =>
        /\ cel_out.out.tag \notin {"Ok", "Panic"}
        /\ cel.encoding \notin {Some("JSON"), Some("CBOR")}

\* C30: in every state of a TcgTpmsCelEvent reached by new and any calls of
\* set_imr, set_nv_index and encode, the register index and the
\* non-volatile index are not both set.
C30_NeverBothIndices ==
    cel_pc # "none" => ~(cel.imr # None /\ cel.nv_index # None)

\* ---------------------------------------------- claims about replay results
\* C23: every digest of every ReplayResult that replay returns has a hash
\* as long as the registry's digest size of its own algorithm id, also when
\* the records mix algorithms on one register.
C23_ResultDigestSizes ==
    replay_ret = "Ok" =>
        \A i \in 1..Len(replay_results) :
            \A j \in 1..Len(replay_results[i].digests) :
                LET d == replay_results[i].digests[j]
                IN ByteLen(d.hash) = get_digest_size_from_algorithm_id(d.algo_id)

\* ------------------------------------------ claims about the binary pass
\* C24: after the spec-ID header record is parsed, the cursor stands at
\* 32 + event_size, the start of the next record, also for a header whose
\* event size is larger than the specification-ID structure it holds.
HeaderParsed ==
    /\ pc = "binary" /\ count = 1 /\ Len(event_logs) = 1
    /\ Fits(boot_time_data, 0, 32)
    /\ get_u32(Slice(boot_time_data, 4, 8)) = EV_NO_ACTION
C24_HeaderConsumedLength ==
    HeaderParsed => index = 32 + get_u32(Slice(boot_time_data, 28, 32))

\* C25: over any sequence of select/parse calls on one collection the
\* spec-ID header is populated at most once, only from the record at
\* offset 0 of the boot time data when its event type is the no-action
\* marker, and is not overwritten afterwards; every record after the first
\* goes to the standard record parser.
StandardRecordStep ==
    LET got == parse_event_log(Rest, event_logs_record_number_list, spec_id_header_event)
    IN /\ got.tag = "Ok"
       /\ event_logs' = Append(event_logs, format_event_log(got.event, parse_format).entry)
       /\ index' = index + got.len
       /\ spec_id_header_event' = spec_id_header_event
C25_HeaderPopulatedOnce ==
    [][/\ count' >= count
       /\ spec_id_header_event' # spec_id_header_event =>
             /\ pc = "binary" /\ index = 0 /\ count = 0 /\ count' = 1
             /\ HeadEventType = EV_NO_ACTION
             /\ spec_id_header_event = EmptySpecIdEvent
       /\ (pc = "binary" /\ (index > 0 \/ count > 0) /\ event_logs' # event_logs) =>
             StandardRecordStep]_vars
\* the header was populated from the first record, and a later record of the
\* no-action event type was kept as a standard record
C25_Witness ==
    /\ spec_id_header_event # EmptySpecIdEvent
    /\ calls = 1 /\ count = 2 /\ Len(event_logs) = 2
    /\ event_logs[1].event_type = EV_NO_ACTION
    /\ event_logs[2].event_type = EV_NO_ACTION
    /\ event_logs[2].kind = "TcgImrEvent"

\* C26: when the binary pass reads the register index 0xFFFFFFFF at the
\* cursor, it stops at once and without error: the records kept so far
\* stay as they are and nothing at or after the sentinel yields a record
\* or an error, however many bytes follow the sentinel's four (none
\* included).
AtSentinel ==
    /\ InBinaryLoop
    /\ Fits(boot_time_data, index, 4)
    /\ get_u32(Slice(boot_time_data, index, index + 4)) = U32Max
C26_SentinelStops ==
    [][AtSentinel =>
         /\ pc' = "runtime"
         /\ event_logs' = event_logs /\ count' = count
         /\ ret' = ret]_vars

\* C27: a binary record whose register index on disk is 0 or greater than
\* 24, and a runtime line whose register is 24 or more, is refused with an
\* explicit error: parse returns Err, the program does not panic, and no
\* counter is read or advanced for it.
BadRegisterRecord ==
    /\ InBinaryLoop /\ HeadInRange
    /\ HeadImr # U32Max
    /\ (HeadImr = 0 \/ ULt(NumRegisters, HeadImr))
LineRegister(line) == parse_u32(split(trim_matches(line))[1])
BadRegisterLine ==
    /\ pc = "runtime" /\ rt_index < Len(run_time_data)
    /\ LineRegister(run_time_data[rt_index + 1]) # <<>>
    /\ ~ULt(LineRegister(run_time_data[rt_index + 1])[1], NumRegisters)
C27_BadRegisterIsError ==
    [][(BadRegisterRecord \/ BadRegisterLine) =>
         /\ pc' = "idle"
         /\ ret'.tag = "Err"
         /\ event_logs' = event_logs
         /\ event_logs_record_number_list' = event_logs_record_number_list]_vars

\* C28: parse ends on every boot time blob in one forward pass: a step of
\* the binary loop either leaves the loop (sentinel, end of data, error or
\* panic) or keeps one record and moves the cursor forward past it, by 16
\* bytes at least and not beyond the end of the data; the cursor never
\* moves backward.  The distance of the cursor to the end of the data is
\* thus a variant of the loop: it is left after Len(boot_time_data) \div 16
\* steps at most.
C28_SingleForwardPass ==
    [][(pc = "binary" /\ pc' = "binary") =>
         /\ index' >= index + 16
         /\ index' <= Len(boot_time_data)
         /\ Len(event_logs') = Len(event_logs) + 1]_vars
\* two records were passed in one call, and the cursor is at the end
C28_Witness ==
    /\ pc = "binary" /\ calls = 1
    /\ Len(event_logs) = 3
    /\ index = Len(boot_time_data)

\* C29: only the non-empty runtime lines are parsed: an empty line, or a
\* line of spaces only, is passed over; it yields no record and does not
\* make parse fail.
IsBlankLine(line) == \A i \in 1..Len(line) : line[i] = " "
AtBlankLine ==
    /\ pc = "runtime" /\ rt_index < Len(run_time_data)
    /\ IsBlankLine(run_time_data[rt_index + 1])
C29_BlankLineIsPassedOver ==
    [][AtBlankLine =>
         /\ pc' = "runtime" /\ rt_index' = rt_index + 1
         /\ event_logs' = event_logs /\ count' = count
         /\ ret' = ret]_vars

\* ------------------------------------- replay, register by register
\* replay as a function of its input: entries of no-action kind and header
\* entries are passed over (lines 525-527, 596), every digest of the other
\* records is extended into the results, in input order
Replayed(log) ==
    ReplayStandardOnly(<<>>, SelectSeq(log, LAMBDA e : e.kind = "TcgImrEvent" /\ ~IsNoAction(e)))
\* the entries of the input that belong to register r, in input order
OfRegister(log, r) ==
    SelectSeq(log, LAMBDA e : e.kind # "TcgCanonicalEvent" /\ e.imr_index = r)
\* the results held for register r among results
ResultsFor(results, r) == SelectSeq(results, LAMBDA res : res.imr_index = r)
\* C31: what replay returns for register r depends only on the records of
\* r, in their order: it is what replay returns for the input with the
\* records of all other registers removed, so inserting, removing or
\* reordering records of other registers does not change it.
C31_RegisterResultsIndependent ==
    replay_ret = "Ok" =>
        \A r \in Registers :
            ResultsFor(replay_results, r) = ResultsFor(Replayed(OfRegister(eventlogs, r)), r)
\* replay returned for a record of register 3 with a digest, then a record
\* of register 0 with a digest, then one more record of register 3
C31_Witness ==
    /\ replay_ret = "Ok"
    /\ Len(eventlogs) = 3
    /\ \A i \in 1..3 : eventlogs[i].kind = "TcgImrEvent" /\ ~IsNoAction(eventlogs[i])
    /\ eventlogs[1].imr_index = 3 /\ eventlogs[1].digests # <<>>
    /\ eventlogs[2].imr_index = 0 /\ eventlogs[2].digests # <<>>
    /\ eventlogs[3].imr_index = 3
    /\ Len(replay_results) = 2

\* ------------------------------------------ claims about the collection
\* C32: parse emits the header entry (TcgPcClientImrEvent) only for the
\* spec-ID header record at the start of the log: event_logs holds at most
\* one header entry, and only at position 0; a record the standard record
\* parser decoded is a standard entry, also when its event type is
\* no-action, its register 0 and its record number 0.
C32_HeaderEntryOnlyFirst ==
    \A i \in 1..Len(event_logs) :
        event_logs[i].kind = "TcgPcClientImrEvent" =>
            /\ i = 1
            /\ spec_id_header_event # EmptySpecIdEvent

\* C33: in every state of a collection, also after a parse that failed
\* part-way, the counter of each register equals the number of records of
\* that register held in event_logs.
RecordsOfRegister(r) ==
    Len(SelectSeq(event_logs, LAMBDA e : e.kind # "TcgCanonicalEvent" /\ e.imr_index = r))
C33_CountersMatchRecords ==
    \A r \in 0..NumRegisters - 1 :
        event_logs_record_number_list[r] = RecordsOfRegister(r)

\* C34: in every state of a collection, after any sequence of select
\* calls, successful or not, count equals the number of records in
\* event_logs.
C34_CountIsLength == count = Len(event_logs)
\* a parse that kept two records failed at the third
C34_Witness ==
    /\ pc = "idle" /\ calls = 1
    /\ ret.tag = "Err" /\ ret.at = "parse"
    /\ count = 2 /\ Len(event_logs) = 2

====
